---- MODULE Spec2Model ----
(***************************************************************************)
(* MATHION quiz application (src/index.tsx): the App component as a state  *)
(* machine.  The variables are the component's useState cells, the         *)
(* localStorage entry 'mathQuizHighScores', the promises of the two        *)
(* generateContent calls that are still pending, and the clock.  Every     *)
(* action is one event handler (or one promise continuation) run to        *)
(* completion, followed by the re-render React performs before the next    *)
(* event is dispatched.                                                    *)
(***************************************************************************)
EXTENDS Integers, Sequences, FiniteSets, TLC

\* ---------------------------------------------------------------- bounds
\* Largest batch of questions the provider returns in the model.
MaxBatch == 6
\* Largest value Date.now() yields in the model (it is 0 when the page is opened).
MaxClock == 1
\* Number of times "Play Again" is pressed in a run.
MaxPlayAgain == 1
\* Number of times a score is saved in a run.
MaxSaves == 2
\* Longest answer string drawn in SpecAnswer.
MaxLen == 3

\* ------------------------------------------------------ program constants
QUIZ_LENGTH == 5
INITIAL_HINT_COINS == 3
TOP_N == 10

Category == {"Arithmetic", "Geometry", "Algebra", "Mixed"}
Difficulty == {"Easy", "Medium", "Hard"}
QuizState == {"idle", "loading", "active", "feedback", "finished"}

\* JavaScript null, for the nullable string cells.
Null == "<null>"

\* ---------------------------------------------------------------- strings
\* A string is a sequence of characters.
toLowerChar(c) == IF c = "A" THEN "a" ELSE c
toLowerCase(s) == [i \in 1..Len(s) |-> toLowerChar(s[i])]
isWhiteSpace(c) == c = " "

RECURSIVE trimStart(_)
trimStart(s) ==
    IF s # <<>> /\ isWhiteSpace(Head(s)) THEN trimStart(Tail(s)) ELSE s

RECURSIVE trimEnd(_)
trimEnd(s) ==
    IF s # <<>> /\ isWhiteSpace(s[Len(s)])
    THEN trimEnd(SubSeq(s, 1, Len(s) - 1))
    ELSE s

trim(s) == trimEnd(trimStart(s))

\* The comparison of line 153 without the two trim() calls.
isCorrect_noTrim(typed, stored) == toLowerCase(typed) = toLowerCase(stored)

\* Line 153: the normalised comparison of the typed and the stored answer.
isCorrect(typed, stored) == toLowerCase(trim(typed)) = toLowerCase(trim(stored))

\* What the user types into the answer box in the model.
TypedAnswers == { <<" ">>, <<"7", " ">>, <<"7", ".", "0">> }
\* The stored answer of every question of a batch in the model.
StoredAnswer == <<"7">>

\* Every string of at most MaxLen characters of Alphabet: what the provider
\* may store as an answer and what the user may type in SpecAnswer.
Alphabet == {" ", "a", "A", "7"}

RECURSIVE StringsOfLen(_)
StringsOfLen(n) ==
    IF n = 0 THEN {<<>>}
    ELSE {Append(s, c) : s \in StringsOfLen(n - 1), c \in Alphabet}

Strings == UNION {StringsOfLen(n) : n \in 0..MaxLen}

\* ------------------------------------------------------------- questions
Question(i) == [question |-> i, answer |-> StoredAnswer]
Batch(n) == [i \in 1..n |-> Question(i)]

\* Outcomes of the question-batch call (lines 74-112): the promise rejects,
\* response.text is not JSON, the JSON has no questions field, or it has one.
Reject == [kind |-> "reject", questions |-> <<>>]
Unparsable == [kind |-> "unparsable", questions |-> <<>>]
NoField == [kind |-> "nofield", questions |-> <<>>]
Json(n) == [kind |-> "json", questions |-> Batch(n)]
Responses == {Reject, Unparsable, NoField} \cup {Json(n) : n \in 0..MaxBatch}

\* Outcomes of the hint call (lines 134-141).
HintText == "hint"
Apology == "Sorry, couldn't get a hint right now."

\* ------------------------------------------------------------ high scores
HighScore(s, c, d, t) == [score |-> s, category |-> c, difficulty |-> d, date |-> t]

\* A JavaScript value held in the highScores cell: an array of entries, or
\* (type "null", "object") what JSON.parse made of a stored text that is no
\* array.
Arr(items) == [type |-> "array", items |-> items]

\* The localStorage entry: absent, a text that is not JSON, or JSON text.
\* JSON text of an array lists each entry's fields in order.
NoEntry == [kind |-> "missing", type |-> "none", items |-> <<>>]
Garbage == [kind |-> "text", type |-> "none", items |-> <<>>]
encodeEntry(e) == <<e.score, e.category, e.difficulty, e.date>>
decodeEntry(t) == HighScore(t[1], t[2], t[3], t[4])
JSON_stringify(v) ==
    [kind |-> "json", type |-> v.type,
     items |-> [i \in 1..Len(v.items) |-> encodeEntry(v.items[i])]]
JSON_parse(b) ==
    [type |-> b.type, items |-> [i \in 1..Len(b.items) |-> decodeEntry(b.items[i])]]

\* compare without the date tie-break.
compare_scoreOnly(a, b) == b.score - a.score

\* Line 196: the comparator given to Array.prototype.sort.
compare(a, b) ==
    IF b.score - a.score # 0 THEN b.score - a.score ELSE b.date - a.date

\* Array.prototype.sort is stable: the order it produces, as the sequence of
\* the indices of s, built by inserting s[k] behind every element that does
\* not have to follow it.
RECURSIVE sortOrder(_, _)
sortOrder(s, k) ==
    IF k = 0 THEN <<>>
    ELSE LET prev == sortOrder(s, k - 1)
             pos == Cardinality({p \in 1..Len(prev) :
                        \A r \in 1..p : compare(s[prev[r]], s[k]) <= 0})
         IN SubSeq(prev, 1, pos) \o <<k>> \o SubSeq(prev, pos + 1, Len(prev))

permute(s, order) == [i \in 1..Len(order) |-> s[order[i]]]
sort(s) == permute(s, sortOrder(s, Len(s)))

\* Line 197: .slice(0, 10)
slice(s) == SubSeq(s, 1, IF Len(s) < TOP_N THEN Len(s) ELSE TOP_N)


\* What localStorage holds under 'mathQuizHighScores' when the page is opened:
\* nothing, a text that is not JSON, JSON that is no array, or a table that an
\* earlier run of the program wrote (sorted, at most TOP_N entries).
JsonNullText == [kind |-> "json", type |-> "null", items |-> <<>>]
JsonObjectText == [kind |-> "json", type |-> "object", items |-> <<>>]
FullTable ==
    << HighScore(5, "Mixed", "Hard", 0),      HighScore(5, "Algebra", "Easy", -1),
       HighScore(4, "Geometry", "Medium", 0), HighScore(3, "Mixed", "Easy", 0),
       HighScore(3, "Algebra", "Hard", -1),    HighScore(2, "Geometry", "Easy", 0),
       HighScore(1, "Mixed", "Medium", 0),    HighScore(1, "Algebra", "Easy", -1),
       HighScore(0, "Geometry", "Hard", 0),   HighScore(0, "Mixed", "Easy", 0) >>
InitialBlobs ==
    {NoEntry, Garbage, JsonNullText, JsonObjectText, JSON_stringify(Arr(FullTable))}

\* ------------------------------------------------------------------ state
VARIABLES
    \* the useState cells of App (lines 39-52)
    quizState, category, difficulty, questions, currentQuestionIndex,
    userAnswer, feedback, score, hintCoins, hint, isHintLoading, hintUsed,
    highScores, scoreSaved,
    \* the environment
    storage,        \* localStorage entry 'mathQuizHighScores'
    storageBlocked, \* the browser denies the page its localStorage: every use throws
    now,            \* the last value Date.now() returned
    pendingQuiz,    \* number of question-batch calls not yet settled
    pendingHints,   \* the hint calls not yet settled, by the question asked about
    \* the component's life cycle
    mounted,        \* the mount effect (lines 54-63) has run
    crashed,        \* a render threw: React has unmounted the tree
    \* history (not read by the program)
    playAgains,         \* times "Play Again" was pressed
    hintsThisQuestion,  \* hint coins spent since the current question was shown
    hintsThisSession,   \* hint coins spent since the last resetQuiz
    savesThisSession,   \* entries added to the table since the last resetQuiz
    saves,              \* entries added to the table in this run
    savedBy,            \* for each entry of highScores: 0 if loaded, else 1 + playAgains at its save
    lastFetch,          \* how the last settled question-batch call ended
    threw               \* the last handler let an exception escape

cells == <<quizState, category, difficulty, questions, currentQuestionIndex,
           userAnswer, feedback, score, hintCoins, hint, isHintLoading, hintUsed,
           highScores, scoreSaved>>
history == <<playAgains, hintsThisQuestion, hintsThisSession, savesThisSession,
             saves, savedBy, lastFetch, threw>>
vars == <<cells, storage, storageBlocked, now, pendingQuiz, pendingHints, mounted, crashed, history>>

quizCells == <<quizState, category, difficulty, questions, currentQuestionIndex,
               userAnswer, feedback, score>>
hintCells == <<hintCoins, hint, isHintLoading, hintUsed>>
fetchVars == <<pendingQuiz, lastFetch>>
tableVars == <<highScores, scoreSaved, storage, storageBlocked, now, savedBy,
               savesThisSession, saves>>
hintHistory == <<hintsThisQuestion, hintsThisSession>>

\* Lines 39-52: the initial values of the cells.
InitCells ==
    /\ quizState = "idle"
    /\ category = Null
    /\ difficulty = Null
    /\ questions = <<>>
    /\ currentQuestionIndex = 0
    /\ userAnswer = <<>>
    /\ feedback = Null
    /\ score = 0
    /\ hintCoins = INITIAL_HINT_COINS
    /\ hint = Null
    /\ isHintLoading = FALSE
    /\ hintUsed = FALSE
    /\ highScores = Arr(<<>>)
    /\ scoreSaved = FALSE

InitRest ==
    /\ now = 0
    /\ pendingQuiz = 0
    /\ pendingHints = <<>>
    /\ mounted = FALSE
    /\ crashed = FALSE
    /\ playAgains = 0
    /\ hintsThisQuestion = 0
    /\ hintsThisSession = 0
    /\ savesThisSession = 0
    /\ saves = 0
    /\ savedBy = <<>>
    /\ lastFetch = "none"
    /\ threw = FALSE

\* A first visit: nothing is stored yet.
Init == InitCells /\ InitRest /\ storage = NoEntry /\ storageBlocked = FALSE

\* A visit with any of the stored texts, or with localStorage denied.
InitStore ==
    /\ InitCells
    /\ InitRest
    /\ \/ storageBlocked = FALSE /\ storage \in InitialBlobs
       \/ storageBlocked = TRUE /\ storage = NoEntry

\* renderContent (lines 209-333) throws where it dereferences a value that is
\* not there: highScores.length of null (line 294), currentQuestion.question
\* of undefined (lines 221, 232).  No error boundary: React unmounts the tree.
renderThrows ==
    \/ quizState = "idle" /\ category = Null /\ highScores.type = "null"
    \/ quizState \in {"active", "feedback"} /\ currentQuestionIndex >= Len(questions)

\* An event can be handled while the component is mounted and alive.
alive == mounted /\ ~crashed


\* ---------------------------------------------------------------- actions
\* Lines 55-62: what the mount effect leaves in highScores, which held current,
\* when the localStorage entry is blob: the parsed text if there is one and
\* it parses, and current otherwise.
loadHighScores(current, blob, blocked) ==
    IF ~blocked /\ blob.kind = "json" THEN JSON_parse(blob) ELSE current

\* Lines 54-63: the mount effect.  Reading a denied localStorage throws and
\* JSON.parse throws on a text that is not JSON; both are caught.  A text
\* that parses is stored in highScores whatever its shape.
useEffectLoad ==
    /\ ~mounted
    /\ mounted' = TRUE
    /\ highScores' = loadHighScores(highScores, storage, storageBlocked)
    /\ IF ~storageBlocked /\ storage.kind = "json"
       THEN savedBy' = [i \in 1..Len(storage.items) |-> 0]
       ELSE UNCHANGED savedBy
    /\ threw' = FALSE
    /\ UNCHANGED <<quizCells, hintCells, scoreSaved, storage, storageBlocked, now, fetchVars,
                   pendingHints, playAgains, hintHistory, savesThisSession, saves>>
    /\ crashed' = renderThrows'

\* Lines 120-122, reached from the category buttons (lines 311-314).
handleCategorySelect(c) ==
    /\ alive
    /\ quizState = "idle" /\ category = Null
    /\ category' = c
    /\ threw' = FALSE
    /\ UNCHANGED <<quizState, difficulty, questions, currentQuestionIndex, userAnswer,
                   feedback, score, hintCells, tableVars, fetchVars, pendingHints,
                   mounted, playAgains, hintHistory>>
    /\ crashed' = renderThrows'

\* Line 328: "Back to Categories".
backToCategories ==
    /\ alive
    /\ quizState = "idle" /\ category # Null
    /\ category' = Null
    /\ threw' = FALSE
    /\ UNCHANGED <<quizState, difficulty, questions, currentQuestionIndex, userAnswer,
                   feedback, score, hintCells, tableVars, fetchVars, pendingHints,
                   mounted, playAgains, hintHistory>>
    /\ crashed' = renderThrows'

\* generateQuestions without setDifficulty(selectedDifficulty).
generateQuestions_noDifficulty(d) ==
    /\ alive
    /\ quizState = "idle" /\ category # Null
    /\ quizState' = "loading"
    /\ difficulty' = difficulty
    /\ pendingQuiz' = pendingQuiz + 1
    /\ threw' = FALSE
    /\ UNCHANGED <<category, questions, currentQuestionIndex, userAnswer, feedback,
                   score, hintCells, tableVars, pendingHints, mounted, playAgains,
                   lastFetch, hintHistory>>
    /\ crashed' = renderThrows'

\* generateQuestions without setQuizState('loading').
generateQuestions_staysIdle(d) ==
    /\ alive
    /\ quizState = "idle" /\ category # Null
    /\ pendingQuiz < 3
    /\ difficulty' = d
    /\ pendingQuiz' = pendingQuiz + 1
    /\ threw' = FALSE
    /\ UNCHANGED <<quizState, category, questions, currentQuestionIndex, userAnswer,
                   feedback, score, hintCells, tableVars, pendingHints, mounted,
                   playAgains, lastFetch, hintHistory>>
    /\ crashed' = renderThrows'

\* Lines 65-104, reached from the difficulty buttons (lines 324-326): up to
\* the await.
generateQuestions(d) ==
    /\ alive
    /\ quizState = "idle" /\ category # Null
    /\ quizState' = "loading"
    /\ difficulty' = d
    /\ pendingQuiz' = pendingQuiz + 1
    /\ threw' = FALSE
    /\ UNCHANGED <<category, questions, currentQuestionIndex, userAnswer, feedback,
                   score, hintCells, tableVars, pendingHints, mounted, playAgains,
                   lastFetch, hintHistory>>
    /\ crashed' = renderThrows'

\* resetQuiz without setScore(0).
resetQuiz_keepsScore ==
    /\ quizState' = "idle"
    /\ category' = Null
    /\ difficulty' = Null
    /\ questions' = <<>>
    /\ currentQuestionIndex' = 0
    /\ userAnswer' = <<>>
    /\ feedback' = Null
    /\ score' = score
    /\ hintCoins' = INITIAL_HINT_COINS
    /\ hint' = Null
    /\ hintUsed' = FALSE
    /\ scoreSaved' = FALSE

\* Lines 177-190.
resetQuiz ==
    /\ quizState' = "idle"
    /\ category' = Null
    /\ difficulty' = Null
    /\ questions' = <<>>
    /\ currentQuestionIndex' = 0
    /\ userAnswer' = <<>>
    /\ feedback' = Null
    /\ score' = 0
    /\ hintCoins' = INITIAL_HINT_COINS
    /\ hint' = Null
    /\ hintUsed' = FALSE
    /\ scoreSaved' = FALSE

\* generateQuestionsSettled without the length test of line 107.
generateQuestionsSettled_acceptsEmpty(r) ==
    /\ alive
    /\ pendingQuiz > 0
    /\ pendingQuiz' = pendingQuiz - 1
    /\ IF r.kind = "json"
       THEN /\ lastFetch' = "ok"
            /\ questions' = r.questions
            /\ quizState' = "active"
            /\ UNCHANGED <<category, difficulty, currentQuestionIndex, userAnswer,
                           feedback, score, hintCoins, hint, hintUsed, scoreSaved,
                           hintHistory, savesThisSession>>
       ELSE /\ lastFetch' = "failed"
            /\ resetQuiz
            /\ hintsThisQuestion' = 0
            /\ hintsThisSession' = 0
            /\ savesThisSession' = 0
    /\ threw' = FALSE
    /\ UNCHANGED <<isHintLoading, highScores, storage, storageBlocked, now, savedBy,
                   saves, pendingHints, mounted, playAgains>>
    /\ crashed' = renderThrows'

\* Lines 106-117: the continuation of the question-batch call.
generateQuestionsSettled(r) ==
    /\ alive
    /\ pendingQuiz > 0
    /\ pendingQuiz' = pendingQuiz - 1
    /\ IF r.kind = "json" /\ Len(r.questions) > 0
       THEN /\ lastFetch' = "ok"
            /\ questions' = r.questions
            /\ quizState' = "active"
            /\ UNCHANGED <<category, difficulty, currentQuestionIndex, userAnswer,
                           feedback, score, hintCoins, hint, hintUsed, scoreSaved,
                           hintHistory, savesThisSession>>
       ELSE /\ lastFetch' = "failed"
            /\ resetQuiz
            /\ hintsThisQuestion' = 0
            /\ hintsThisSession' = 0
            /\ savesThisSession' = 0
    /\ threw' = FALSE
    /\ UNCHANGED <<isHintLoading, highScores, storage, storageBlocked, now, savedBy,
                   saves, pendingHints, mounted, playAgains>>
    /\ crashed' = renderThrows'

\* Line 252: the "Get Hint" button's disabled attribute.
hintButtonDisabled == hintCoins <= 0 \/ hintUsed \/ isHintLoading

\* handleGetHint without setHintUsed(true).
handleGetHint_noLatch ==
    /\ IF hintCoins <= 0 \/ hintUsed
       THEN UNCHANGED <<hintCells, pendingHints, hintHistory>>
       ELSE /\ isHintLoading' = TRUE
            /\ hintCoins' = hintCoins - 1
            /\ pendingHints' =
                   Append(pendingHints, questions[currentQuestionIndex + 1].question)
            /\ hintsThisQuestion' = hintsThisQuestion + 1
            /\ hintsThisSession' = hintsThisSession + 1
            /\ UNCHANGED <<hint, hintUsed>>
    /\ threw' = FALSE
    /\ UNCHANGED <<quizCells, tableVars, fetchVars, mounted, playAgains>>
    /\ crashed' = renderThrows'

\* Lines 124-131: handleGetHint up to the await.
handleGetHint ==
    /\ IF hintCoins <= 0 \/ hintUsed
       THEN UNCHANGED <<hintCells, pendingHints, hintHistory>>
       ELSE /\ isHintLoading' = TRUE
            /\ hintUsed' = TRUE
            /\ hintCoins' = hintCoins - 1
            /\ pendingHints' =
                   Append(pendingHints, questions[currentQuestionIndex + 1].question)
            /\ hintsThisQuestion' = hintsThisQuestion + 1
            /\ hintsThisSession' = hintsThisSession + 1
            /\ UNCHANGED hint
    /\ threw' = FALSE
    /\ UNCHANGED <<quizCells, tableVars, fetchVars, mounted, playAgains>>
    /\ crashed' = renderThrows'

\* Lines 249-256: a press of "Get Hint", which is shown in the active state.
\* A disabled button dispatches nothing.
clickGetHint ==
    /\ alive
    /\ quizState = "active"
    /\ IF hintButtonDisabled THEN UNCHANGED vars ELSE handleGetHint

\* handleGetHintSettled giving the coin back and releasing the latch when the
\* call failed.
handleGetHintSettled_refunds(i, ok) ==
    /\ alive
    /\ i \in 1..Len(pendingHints)
    /\ pendingHints' = SubSeq(pendingHints, 1, i - 1)
                         \o SubSeq(pendingHints, i + 1, Len(pendingHints))
    /\ hint' = IF ok THEN HintText ELSE Apology
    /\ isHintLoading' = FALSE
    /\ hintCoins' = IF ok THEN hintCoins ELSE hintCoins + 1
    /\ hintUsed' = IF ok THEN hintUsed ELSE FALSE
    /\ threw' = FALSE
    /\ UNCHANGED <<quizCells, tableVars, fetchVars, mounted, playAgains, hintHistory>>
    /\ crashed' = renderThrows'

\* Lines 133-144: the continuation of the i-th pending hint call.
handleGetHintSettled(i, ok) ==
    /\ alive
    /\ i \in 1..Len(pendingHints)
    /\ pendingHints' = SubSeq(pendingHints, 1, i - 1)
                         \o SubSeq(pendingHints, i + 1, Len(pendingHints))
    /\ hint' = IF ok THEN HintText ELSE Apology
    /\ isHintLoading' = FALSE
    /\ threw' = FALSE
    /\ UNCHANGED <<quizCells, hintCoins, hintUsed, tableVars, fetchVars, mounted,
                   playAgains, hintHistory>>
    /\ crashed' = renderThrows'

\* Line 243: the answer box's onChange.
setUserAnswer(s) ==
    /\ alive
    /\ quizState = "active"
    /\ userAnswer' = s
    /\ threw' = FALSE
    /\ UNCHANGED <<quizState, category, difficulty, questions, currentQuestionIndex,
                   feedback, score, hintCells, tableVars, fetchVars, pendingHints,
                   mounted, playAgains, hintHistory>>
    /\ crashed' = renderThrows'

\* handleAnswerSubmit without setScore(prev => prev + 1).
handleAnswerSubmit_noScore ==
    /\ alive
    /\ quizState = "active"
    /\ IF trim(userAnswer) = <<>>
       THEN UNCHANGED <<score, feedback, quizState>>
       ELSE /\ IF isCorrect(userAnswer, questions[currentQuestionIndex + 1].answer)
               THEN score' = score /\ feedback' = "Correct!"
               ELSE score' = score /\ feedback' = "Incorrect!"
            /\ quizState' = "feedback"
    /\ threw' = FALSE
    /\ UNCHANGED <<category, difficulty, questions, currentQuestionIndex, userAnswer,
                   hintCells, tableVars, fetchVars, pendingHints, mounted,
                   playAgains, hintHistory>>
    /\ crashed' = renderThrows'

\* handleAnswerSubmit without setQuizState('feedback').
handleAnswerSubmit_staysActive ==
    /\ alive
    /\ quizState = "active"
    /\ score < 2 * QUIZ_LENGTH
    /\ IF trim(userAnswer) = <<>>
       THEN UNCHANGED <<score, feedback, quizState>>
       ELSE /\ IF isCorrect(userAnswer, questions[currentQuestionIndex + 1].answer)
               THEN score' = score + 1 /\ feedback' = "Correct!"
               ELSE score' = score /\ feedback' = "Incorrect!"
            /\ quizState' = quizState
    /\ threw' = FALSE
    /\ UNCHANGED <<category, difficulty, questions, currentQuestionIndex, userAnswer,
                   hintCells, tableVars, fetchVars, pendingHints, mounted,
                   playAgains, hintHistory>>
    /\ crashed' = renderThrows'

\* Lines 147-162, reached from the form shown in the active state (line 239).
handleAnswerSubmit ==
    /\ alive
    /\ quizState = "active"
    /\ IF trim(userAnswer) = <<>>
       THEN UNCHANGED <<score, feedback, quizState>>
       ELSE /\ IF isCorrect(userAnswer, questions[currentQuestionIndex + 1].answer)
               THEN score' = score + 1 /\ feedback' = "Correct!"
               ELSE score' = score /\ feedback' = "Incorrect!"
            /\ quizState' = "feedback"
    /\ threw' = FALSE
    /\ UNCHANGED <<category, difficulty, questions, currentQuestionIndex, userAnswer,
                   hintCells, tableVars, fetchVars, pendingHints, mounted,
                   playAgains, hintHistory>>
    /\ crashed' = renderThrows'

\* handleNextQuestion comparing the index with questions.length.
handleNextQuestion_offByOne ==
    /\ alive
    /\ quizState = "feedback"
    /\ feedback' = Null
    /\ userAnswer' = <<>>
    /\ hint' = Null
    /\ hintUsed' = FALSE
    /\ IF currentQuestionIndex < Len(questions)
       THEN /\ currentQuestionIndex' = currentQuestionIndex + 1
            /\ quizState' = "active"
            /\ hintsThisQuestion' = 0
       ELSE /\ quizState' = "finished"
            /\ UNCHANGED <<currentQuestionIndex, hintsThisQuestion>>
    /\ threw' = FALSE
    /\ UNCHANGED <<category, difficulty, questions, score, hintCoins, isHintLoading,
                   tableVars, fetchVars, pendingHints, mounted, playAgains,
                   hintsThisSession>>
    /\ crashed' = renderThrows'

\* Lines 164-175, reached from the button shown in the feedback state (line 267).
handleNextQuestion ==
    /\ alive
    /\ quizState = "feedback"
    /\ feedback' = Null
    /\ userAnswer' = <<>>
    /\ hint' = Null
    /\ hintUsed' = FALSE
    /\ IF currentQuestionIndex < Len(questions) - 1
       THEN /\ currentQuestionIndex' = currentQuestionIndex + 1
            /\ quizState' = "active"
            /\ hintsThisQuestion' = 0
       ELSE /\ quizState' = "finished"
            /\ UNCHANGED <<currentQuestionIndex, hintsThisQuestion>>
    /\ threw' = FALSE
    /\ UNCHANGED <<category, difficulty, questions, score, hintCoins, isHintLoading,
                   tableVars, fetchVars, pendingHints, mounted, playAgains,
                   hintsThisSession>>
    /\ crashed' = renderThrows'

\* Line 283: "Play Again", shown in the finished state.
playAgain ==
    /\ alive
    /\ quizState = "finished"
    /\ playAgains < MaxPlayAgain
    /\ resetQuiz
    /\ playAgains' = playAgains + 1
    /\ hintsThisQuestion' = 0
    /\ hintsThisSession' = 0
    /\ savesThisSession' = 0
    /\ threw' = FALSE
    /\ UNCHANGED <<isHintLoading, highScores, storage, storageBlocked, now, savedBy,
                   saves, fetchVars, pendingHints, mounted>>
    /\ crashed' = renderThrows'

\* handleSaveScore writing the table as it was before the new row.
handleSaveScore_persistsOld(t, quotaOk) ==
    /\ alive
    /\ quizState = "finished" /\ ~scoreSaved
    /\ saves < MaxSaves
    /\ t >= now
    /\ IF category = Null \/ difficulty = Null
       THEN /\ threw' = FALSE
            /\ UNCHANGED tableVars
       ELSE /\ now' = t
            /\ UNCHANGED storageBlocked
            /\ IF highScores.type # "array"
               THEN /\ threw' = TRUE
                    /\ UNCHANGED <<highScores, scoreSaved, storage, savedBy,
                                   savesThisSession, saves>>
               ELSE LET newScore == HighScore(score, category, difficulty, t)
                        appended == Append(highScores.items, newScore)
                        order == sortOrder(appended, Len(appended))
                        updatedScores == slice(sort(appended))
                    IN /\ highScores' = Arr(updatedScores)
                       /\ savedBy' = slice(permute(Append(savedBy, playAgains + 1), order))
                       /\ savesThisSession' = savesThisSession + 1
                       /\ saves' = saves + 1
                       /\ IF quotaOk /\ ~storageBlocked
                          THEN /\ storage' = JSON_stringify(highScores)
                               /\ scoreSaved' = TRUE
                               /\ threw' = FALSE
                          ELSE /\ threw' = TRUE
                               /\ UNCHANGED <<storage, scoreSaved>>
    /\ UNCHANGED <<quizCells, hintCells, fetchVars, pendingHints, mounted,
                   playAgains, hintHistory>>
    /\ crashed' = renderThrows'

\* Lines 192-202, reached from "Save Score" (line 280), which is disabled once
\* scoreSaved is set.  t is what Date.now() returns.  Spreading a value that
\* is not iterable throws (line 195); setItem (line 200) throws when
\* localStorage is denied or its quota is exceeded (quotaOk false); what was
\* set before the throw stays set.
handleSaveScore(t, quotaOk) ==
    /\ alive
    /\ quizState = "finished" /\ ~scoreSaved
    /\ saves < MaxSaves
    /\ t >= now
    /\ IF category = Null \/ difficulty = Null
       THEN /\ threw' = FALSE
            /\ UNCHANGED tableVars
       ELSE /\ now' = t
            /\ UNCHANGED storageBlocked
            /\ IF highScores.type # "array"
               THEN /\ threw' = TRUE
                    /\ UNCHANGED <<highScores, scoreSaved, storage, savedBy,
                                   savesThisSession, saves>>
               ELSE LET newScore == HighScore(score, category, difficulty, t)
                        appended == Append(highScores.items, newScore)
                        order == sortOrder(appended, Len(appended))
                        updatedScores == slice(sort(appended))
                    IN /\ highScores' = Arr(updatedScores)
                       /\ savedBy' = slice(permute(Append(savedBy, playAgains + 1), order))
                       /\ savesThisSession' = savesThisSession + 1
                       /\ saves' = saves + 1
                       /\ IF quotaOk /\ ~storageBlocked
                          THEN /\ storage' = JSON_stringify(Arr(updatedScores))
                               /\ scoreSaved' = TRUE
                               /\ threw' = FALSE
                          ELSE /\ threw' = TRUE
                               /\ UNCHANGED <<storage, scoreSaved>>
    /\ UNCHANGED <<quizCells, hintCells, fetchVars, pendingHints, mounted,
                   playAgains, hintHistory>>
    /\ crashed' = renderThrows'

\* handleClearScores without localStorage.removeItem.
handleClearScores_keepsEntry ==
    /\ alive
    /\ quizState = "idle" /\ category = Null
    /\ highScores.type = "array" /\ Len(highScores.items) > 0
    /\ highScores' = Arr(<<>>)
    /\ savedBy' = <<>>
    /\ storage' = storage /\ threw' = FALSE
    /\ UNCHANGED <<quizCells, hintCells, scoreSaved, storageBlocked, now, savesThisSession, saves,
                   fetchVars, pendingHints, mounted, playAgains, hintHistory>>
    /\ crashed' = renderThrows'

\* Lines 204-207, reached from "Clear Scores" (line 305), which is shown on the
\* category screen when highScores.length > 0 (line 294).  removeItem throws
\* when localStorage is denied.
handleClearScores ==
    /\ alive
    /\ quizState = "idle" /\ category = Null
    /\ highScores.type = "array" /\ Len(highScores.items) > 0
    /\ highScores' = Arr(<<>>)
    /\ savedBy' = <<>>
    /\ IF ~storageBlocked
       THEN storage' = NoEntry /\ threw' = FALSE
       ELSE storage' = storage /\ threw' = TRUE
    /\ UNCHANGED <<quizCells, hintCells, scoreSaved, storageBlocked, now, savesThisSession, saves,
                   fetchVars, pendingHints, mounted, playAgains, hintHistory>>
    /\ crashed' = renderThrows'

\* ---------------------------------------------------------- specifications
\* Spec: the quiz session.  The provider answers in every way; the user plays
\* one category at one difficulty, types any of TypedAnswers, and every
\* storage write succeeds and reads the time of the last one.
Next ==
    \/ useEffectLoad
    \/ \E c \in {"Arithmetic"} : handleCategorySelect(c)
    \/ backToCategories
    \/ \E d \in {"Easy"} : generateQuestions(d)
    \/ \E r \in Responses : generateQuestionsSettled(r)
    \/ clickGetHint
    \/ \E i \in 1..Len(pendingHints), ok \in BOOLEAN : handleGetHintSettled(i, ok)
    \/ \E s \in TypedAnswers \cup {<<>>} : setUserAnswer(s)
    \/ handleAnswerSubmit
    \/ handleNextQuestion
    \/ playAgain
    \/ \E t \in {now}, quotaOk \in {TRUE} : handleSaveScore(t, quotaOk)
    \/ handleClearScores

Spec == Init /\ [][Next]_vars

\* SpecStore: the high-score table.  Any stored text, any clock reading, every
\* outcome of a storage write; the provider fails or returns one question,
\* and the user plays one category at two difficulties.
NextStore ==
    \/ useEffectLoad
    \/ \E c \in {"Arithmetic"} : handleCategorySelect(c)
    \/ backToCategories
    \/ \E d \in {"Easy", "Hard"} : generateQuestions(d)
    \/ \E r \in {Reject, Json(1)} : generateQuestionsSettled(r)
    \/ clickGetHint
    \/ \E i \in 1..Len(pendingHints), ok \in {TRUE} : handleGetHintSettled(i, ok)
    \/ \E s \in {<<"7", " ">>, <<"7", ".", "0">>} : setUserAnswer(s)
    \/ handleAnswerSubmit
    \/ handleNextQuestion
    \/ playAgain
    \/ \E t \in 0..MaxClock, quotaOk \in BOOLEAN : handleSaveScore(t, quotaOk)
    \/ handleClearScores

SpecStore == InitStore /\ [][NextStore]_vars


\* SpecAllCorrect: one session in which the provider returns QUIZ_LENGTH
\* questions and the user types only spellings of the stored answer, asking
\* for hints as they like, up to the end of the quiz.
CorrectSpellings == { <<"7">>, <<"7", " ">> }

NextAllCorrect ==
    \/ useEffectLoad
    \/ \E c \in {"Arithmetic"} : handleCategorySelect(c)
    \/ \E d \in {"Easy"} : generateQuestions(d)
    \/ \E r \in {Json(QUIZ_LENGTH)} : generateQuestionsSettled(r)
    \/ clickGetHint
    \/ \E i \in 1..Len(pendingHints), ok \in BOOLEAN : handleGetHintSettled(i, ok)
    \/ \E s \in CorrectSpellings : setUserAnswer(s)
    \/ handleAnswerSubmit
    \/ handleNextQuestion

SpecAllCorrect == Init /\ [][NextAllCorrect]_vars

\* FairAllCorrect: the same session when nothing stalls: the effect runs, the
\* provider settles every call, and the user keeps choosing, typing,
\* submitting and advancing.
FairAllCorrect ==
    /\ SpecAllCorrect
    /\ WF_vars(useEffectLoad)
    /\ WF_vars(\E c \in {"Arithmetic"} : handleCategorySelect(c))
    /\ WF_vars(\E d \in {"Easy"} : generateQuestions(d))
    /\ WF_vars(\E r \in {Json(QUIZ_LENGTH)} : generateQuestionsSettled(r))
    /\ WF_vars(\E s \in CorrectSpellings : setUserAnswer(s))
    /\ WF_vars(handleAnswerSubmit)
    /\ WF_vars(handleNextQuestion)

\* SpecAnswer: the answer check on every pair of strings.  The provider
\* returns one question whose stored answer is any of Strings; the user types
\* any of Strings, or "7.0", once, submits, and goes on.
OneQuestion(a) == [kind |-> "json", questions |-> <<[question |-> 1, answer |-> a]>>]

NextAnswer ==
    \/ useEffectLoad
    \/ \E c \in {"Arithmetic"} : handleCategorySelect(c)
    \/ \E d \in {"Easy"} : generateQuestions(d)
    \/ \E a \in Strings : generateQuestionsSettled(OneQuestion(a))
    \/ \E s \in Strings \cup TypedAnswers : userAnswer = <<>> /\ setUserAnswer(s)
    \/ handleAnswerSubmit
    \/ handleNextQuestion

SpecAnswer == Init /\ [][NextAnswer]_vars

\* ------------------------------------------------------------------ claims

\* C1: in every reachable state 0 <= score <= QUIZ_LENGTH and
\* 0 <= hintCoins <= INITIAL_HINT_COINS, whatever non-empty batch the provider
\* returned.
C1_ScoreAndHintBounds ==
    /\ 0 <= score /\ score <= QUIZ_LENGTH
    /\ 0 <= hintCoins /\ hintCoins <= INITIAL_HINT_COINS

\* C2: at most one hint is granted per question: no question has more than
\* one hint coin spent on it, and a press of "Get Hint" made once a hint was
\* requested for the current question (hintUsed), pending or settled, changes
\* neither hintCoins nor hint.
C2_OneHintPerQuestion ==
    /\ [](hintsThisQuestion <= 1)
    /\ [][(clickGetHint /\ hintUsed) => (hintCoins' = hintCoins /\ hint' = hint)]_vars

\* C2's case: a hint was granted for the current question and has settled, the
\* question is still shown and coins are left; a further press is refused.
C2_Witness ==
    /\ quizState = "active"
    /\ hintUsed /\ ~isHintLoading /\ hint # Null
    /\ hintsThisQuestion = 1 /\ hintCoins > 0

\* C3: a hint call of an earlier session is not applied to a newer one: while
\* no hint was requested since the last reset, a shown question has no hint
\* text.
C3_NoStaleHintAfterReset ==
    (quizState \in {"active", "feedback"} /\ hintsThisSession = 0) => hint = Null

\* C4: after an advance to the next question, hint is null and hintUsed is
\* false for as long as no hint is requested for the new question, also when
\* the previous question's hint call was pending at the advance.
C4_HintClearedAfterAdvance ==
    (/\ quizState \in {"active", "feedback"}
     /\ currentQuestionIndex > 0
     /\ hintsThisQuestion = 0)
    => (hint = Null /\ ~hintUsed)

\* C5: between two resets at most one entry is added to the high-score
\* table, whatever the storage write of the first save did.
C5_SaveOncePerSession == savesThisSession <= 1


\* The order of section 3 of the specification, stated on the table itself:
\* descending score, equal scores by descending date.
sortedDesc(t) ==
    \A i, j \in 1..Len(t) :
        i < j => \/ t[i].score > t[j].score
                 \/ t[i].score = t[j].score /\ t[i].date >= t[j].date
outranks(x, y) == x.score > y.score \/ (x.score = y.score /\ x.date > y.date)
count(t, x) == Cardinality({i \in 1..Len(t) : t[i] = x})

\* kept holds the first TOP_N of old plus e: it has that many entries, each
\* one of them, and none left out outranks one that is kept.
keepsTop(old, e, kept) ==
    LET all == Append(old, e)
    IN /\ Len(kept) = (IF Len(all) < TOP_N THEN Len(all) ELSE TOP_N)
       /\ \A k \in 1..Len(kept) : count(kept, kept[k]) <= count(all, kept[k])
       /\ \A i \in 1..Len(all) :
              count(kept, all[i]) < count(all, all[i])
              => \A k \in 1..Len(kept) : ~outranks(all[i], kept[k])

\* C6: after any save made on a table, the table in memory has at most TOP_N
\* entries, is sorted by descending score and then descending date, and holds
\* the first TOP_N of the previous table plus the new entry; a write that
\* succeeds persists that table, and the table persisted after the save is
\* sorted and has at most TOP_N entries too.
C6_SaveKeepsTopTen ==
    [][\A t \in 0..MaxClock, w \in BOOLEAN :
          (/\ handleSaveScore(t, w)
           /\ category # Null /\ difficulty # Null
           /\ highScores.type = "array")
          => /\ highScores'.type = "array"
             /\ Len(highScores'.items) <= TOP_N
             /\ sortedDesc(highScores'.items)
             /\ keepsTop(highScores.items, HighScore(score, category, difficulty, t),
                         highScores'.items)
             /\ IF w /\ ~storageBlocked
                THEN /\ storage'.kind = "json" /\ storage'.type = "array"
                     /\ JSON_parse(storage') = highScores'
                ELSE storage' = storage
             /\ (storage'.kind = "json" /\ storage'.type = "array")
                => /\ Len(storage'.items) <= TOP_N
                   /\ sortedDesc(JSON_parse(storage').items)]_vars

\* C6's case: a save was made on a full table and its entry was kept, so an
\* older entry was cut off.
C6_Witness ==
    /\ scoreSaved
    /\ highScores.type = "array" /\ Len(highScores.items) = TOP_N
    /\ \E i \in 1..Len(savedBy) : savedBy[i] > 0
    /\ \E i \in 1..Len(savedBy) : savedBy[i] = 0
    /\ storage = JSON_stringify(highScores)

\* C7: of two distinguishable entries with the same score saved by different
\* sessions of this run, the one of the later session stands first, whatever
\* times the two saves read.
C7_LaterSessionFirst ==
    highScores.type = "array" =>
        \A i, j \in 1..Len(highScores.items) :
            (/\ i < j
             /\ highScores.items[i].score = highScores.items[j].score
             /\ highScores.items[i] # highScores.items[j]
             /\ savedBy[i] > 0 /\ savedBy[j] > 0
             /\ savedBy[i] # savedBy[j])
            => savedBy[i] > savedBy[j]

\* C8: load never raises and leaves a table: once the mount effect has run,
\* highScores is an array (empty unless the stored text was JSON of an array)
\* and no render has thrown.
C8_LoadYieldsTable ==
    mounted => (highScores.type = "array" /\ ~crashed)

\* C9: a storage write that fails during save or clear is dropped silently:
\* no exception escapes a handler working on a table, and a session that
\* added its entry to the table in memory has scoreSaved set, as after a
\* write that succeeds.
C9_WriteFailureDropped ==
    /\ (highScores.type = "array" => ~threw)
    /\ (savesThisSession > 0 => scoreSaved)

\* C10: a question-batch call that rejects, returns a malformed response or
\* returns no questions takes the session from loading to idle with every
\* session cell at its initial value; the session does not become active.
C10_FailedFetchResets ==
    [][\A r \in Responses :
          (generateQuestionsSettled(r) /\ ~(r.kind = "json" /\ Len(r.questions) > 0))
          => /\ quizState = "loading"
             /\ quizState' = "idle"
             /\ category' = Null /\ difficulty' = Null
             /\ score' = 0 /\ hintCoins' = INITIAL_HINT_COINS
             /\ currentQuestionIndex' = 0 /\ questions' = <<>>
             /\ hint' = Null /\ hintUsed' = FALSE]_vars

\* C10's case: the last question-batch call failed and the session is back on
\* the category screen.
C10_Witness ==
    /\ lastFetch = "failed"
    /\ quizState = "idle" /\ category = Null /\ difficulty = Null
    /\ pendingQuiz = 0


\* C11: every entry into active from loading, in the first session and in
\* every later one, happens with currentQuestionIndex = 0, score = 0 and
\* hintCoins = INITIAL_HINT_COINS.
C11_ActiveStartsFresh ==
    [][(quizState = "loading" /\ quizState' = "active")
       => /\ currentQuestionIndex' = 0
          /\ score' = 0
          /\ hintCoins' = INITIAL_HINT_COINS]_vars

\* C11's case: a session begun after "Play Again" has just become active, the
\* hint of the session before it having arrived late.
C11_Witness ==
    /\ quizState = "active" /\ playAgains >= 1
    /\ currentQuestionIndex = 0 /\ score = 0 /\ hintCoins = INITIAL_HINT_COINS
    /\ userAnswer = <<>> /\ hintsThisSession = 0
    /\ hint # Null

\* C12: a hint request spends exactly one coin and sets hintUsed before its
\* outcome is known; a hint call that fails sets hint to the failure text and
\* leaves quizState, score, currentQuestionIndex, questions, hintCoins and
\* hintUsed as they are, which is what a call that succeeds leaves them too.
C12_FailedHintStillSpent ==
    /\ [](hintCoins = INITIAL_HINT_COINS - hintsThisSession)
    /\ [][(clickGetHint /\ ~hintButtonDisabled)
          => (hintCoins' = hintCoins - 1 /\ hintUsed')]_vars
    /\ [][\A i \in 1..Len(pendingHints), ok \in BOOLEAN :
             handleGetHintSettled(i, ok)
             => /\ hint' = (IF ok THEN HintText ELSE Apology)
                /\ UNCHANGED <<quizState, score, currentQuestionIndex, questions,
                               hintCoins, hintUsed>>]_vars

\* C12's case: the hint call for the question shown has failed; one coin is
\* gone and the latch is set.
C12_Witness ==
    /\ quizState = "active"
    /\ hint = Apology /\ ~isHintLoading /\ pendingHints = <<>>
    /\ hintUsed /\ hintsThisQuestion = 1
    /\ hintCoins = INITIAL_HINT_COINS - 1

\* C13: at most one question-batch call is pending; one is pending exactly in
\* the loading state; a call is started only from idle with a category chosen
\* and moves the session to loading; in loading nothing happens but the
\* settling of a call, and loading is left only by the batch call settling.
C13_OneBatchCallInFlight ==
    /\ [](pendingQuiz <= 1 /\ (quizState = "loading" <=> pendingQuiz = 1))
    /\ [][pendingQuiz' > pendingQuiz
          => (quizState = "idle" /\ category # Null /\ quizState' = "loading")]_vars
    /\ [][quizState = "loading"
          => \/ pendingQuiz' = pendingQuiz - 1
             \/ (quizState' = "loading" /\ pendingHints' # pendingHints
                 /\ UNCHANGED <<category, difficulty, pendingQuiz>>)]_vars

\* C13's case: the batch call of a second session is pending.
C13_Witness ==
    quizState = "loading" /\ pendingQuiz = 1 /\ playAgains >= 1


\* C17: in active, feedback and finished, 0 <= currentQuestionIndex <
\* questions.length; "Next Question" finishes the quiz exactly at the last
\* index and otherwise raises the index by one and shows the next question;
\* between the load of a batch and the reset no step changes questions.
C17_IndexInRange ==
    /\ [](quizState \in {"active", "feedback", "finished"}
            => (0 <= currentQuestionIndex
                /\ currentQuestionIndex < Len(questions)))
    /\ [][handleNextQuestion
          => IF currentQuestionIndex = Len(questions) - 1
             THEN quizState' = "finished"
                  /\ currentQuestionIndex' = currentQuestionIndex
             ELSE quizState' = "active"
                  /\ currentQuestionIndex' = currentQuestionIndex + 1]_vars
    /\ [][(quizState \in {"active", "feedback", "finished"}
            /\ questions' # questions)
          => (quizState' = "idle" /\ questions' = <<>>)]_vars

\* C17's case: the last question of a batch of several is being shown.
C17_Witness ==
    /\ quizState = "active"
    /\ Len(questions) >= 2
    /\ currentQuestionIndex = Len(questions) - 1

\* C19: within a session score never goes down and counts submitted
\* questions only: score <= currentQuestionIndex in active, score <=
\* currentQuestionIndex + 1 in feedback and finished; score rises by one at a
\* time, and only on a submit that leaves active for feedback.
C19_ScoreCountsSubmitted ==
    /\ [](quizState = "active" => score <= currentQuestionIndex)
    /\ [](quizState \in {"feedback", "finished"}
            => score <= currentQuestionIndex + 1)
    /\ [][score' < score => quizState' = "idle"]_vars
    /\ [][score' > score
          => /\ handleAnswerSubmit
             /\ score' = score + 1
             /\ quizState = "active" /\ quizState' = "feedback"
             /\ currentQuestionIndex' = currentQuestionIndex]_vars

\* C19's case: the second question or a later one has just been answered
\* correctly, as every question before it.
C19_Witness ==
    /\ quizState = "feedback" /\ feedback = "Correct!"
    /\ currentQuestionIndex >= 1
    /\ score = currentQuestionIndex + 1


\* C20: outside idle both category and difficulty are set, so "Save Score"
\* never returns at its guard without a word: it either records a row or
\* throws; and every row the session has recorded carries the session's
\* category and difficulty.
C20_SaveNeverSkipped ==
    /\ [](quizState # "idle" => (category # Null /\ difficulty # Null))
    /\ [][\A t \in 0..MaxClock, quotaOk \in BOOLEAN :
             handleSaveScore(t, quotaOk)
             => /\ category \in Category /\ difficulty \in Difficulty
                /\ (threw' \/ saves' = saves + 1)]_vars
    /\ [](quizState = "finished" /\ highScores.type = "array"
            => \A i \in 1..Len(savedBy) :
                   savedBy[i] = playAgains + 1
                   => /\ highScores.items[i].category = category
                      /\ highScores.items[i].difficulty = difficulty)

\* C20's case: a second session, played at "Hard", has recorded its row.
C20_Witness ==
    /\ quizState = "finished" /\ scoreSaved /\ playAgains >= 1
    /\ difficulty = "Hard" /\ highScores.type = "array"
    /\ \E i \in 1..Len(savedBy) :
          /\ savedBy[i] = playAgains + 1
          /\ highScores.items[i].difficulty = "Hard"


\* C15: when the provider returns QUIZ_LENGTH questions and every answer is
\* right, the session goes idle, loading, then active and feedback once for
\* each of the indices 0..QUIZ_LENGTH-1 in turn, then finished; score is the
\* number of questions answered so far and QUIZ_LENGTH at the end, and the
\* end is reached.
C15_AllCorrectRun ==
    /\ [](quizState \in {"idle", "loading"}
            => (score = 0 /\ currentQuestionIndex = 0))
    /\ [](quizState = "active"
            => (currentQuestionIndex \in 0..(QUIZ_LENGTH - 1)
                /\ score = currentQuestionIndex))
    /\ [](quizState = "feedback"
            => (currentQuestionIndex \in 0..(QUIZ_LENGTH - 1)
                /\ feedback = "Correct!"
                /\ score = currentQuestionIndex + 1))
    /\ [](quizState = "finished"
            => (currentQuestionIndex = QUIZ_LENGTH - 1 /\ score = QUIZ_LENGTH))
    /\ [][quizState' # quizState
          => \/ quizState = "idle" /\ quizState' = "loading"
             \/ quizState = "loading" /\ quizState' = "active"
                /\ currentQuestionIndex' = 0
             \/ quizState = "active" /\ quizState' = "feedback"
                /\ currentQuestionIndex' = currentQuestionIndex
             \/ quizState = "feedback" /\ quizState' = "active"
                /\ currentQuestionIndex' = currentQuestionIndex + 1
             \/ quizState = "feedback" /\ quizState' = "finished"
                /\ currentQuestionIndex = QUIZ_LENGTH - 1]_vars
    /\ <>(quizState = "finished" /\ score = QUIZ_LENGTH)

\* C15's case: the run has reached the end with every question answered.
C15_Witness ==
    /\ quizState = "finished" /\ score = QUIZ_LENGTH
    /\ Len(questions) = QUIZ_LENGTH /\ lastFetch = "ok"


\* What is left of s between its first and its last character that is not a
\* space.
stripped(s) ==
    LET inked == {i \in 1..Len(s) : s[i] # " "}
        first == CHOOSE i \in inked : \A j \in inked : i <= j
        last == CHOOSE i \in inked : \A j \in inked : j <= i
    IN IF inked = {} THEN <<>> ELSE SubSeq(s, first, last)

\* x and y are the same string up to the case of their letters.
sameFolded(x, y) ==
    /\ Len(x) = Len(y)
    /\ \A i \in 1..Len(x) : x[i] = y[i] \/ {x[i], y[i]} = {"a", "A"}

\* C14: a submit depends on the typed and the stored string only: it is
\* ignored when the typed string is blank; otherwise it goes to feedback and
\* is correct exactly when the two strings, stripped of leading and trailing
\* spaces, are equal up to case.  "7 " against "7" is correct, "7.0" against
\* "7" is not.
C14_AnswerCheck ==
    /\ [](isCorrect(<<"7", " ">>, <<"7">>) /\ ~isCorrect(<<"7", ".", "0">>, <<"7">>))
    /\ [][handleAnswerSubmit
          => LET stored == questions[currentQuestionIndex + 1].answer
             IN IF stripped(userAnswer) = <<>>
                THEN UNCHANGED <<quizState, score, feedback>>
                ELSE /\ quizState' = "feedback"
                     /\ IF sameFolded(stripped(userAnswer), stripped(stored))
                        THEN score' = score + 1 /\ feedback' = "Correct!"
                        ELSE score' = score /\ feedback' = "Incorrect!"]_vars

\* C14's case: an answer typed with a leading space and in another case than
\* the stored one has been accepted.
C14_Witness ==
    /\ quizState = "feedback" /\ feedback = "Correct!" /\ score = 1
    /\ Len(userAnswer) >= 2 /\ userAnswer[1] = " "
    /\ \E i \in 1..Len(userAnswer) : userAnswer[i] = "A"
    /\ \A i \in 1..Len(questions[1].answer) : questions[1].answer[i] # "A"


\* C16: a load that follows a clear yields the empty table, whatever
\* highScores and the localStorage entry held before the clear.
C16_ClearThenLoadEmpty ==
    [][handleClearScores
       => loadHighScores(Arr(<<>>), storage', storageBlocked') = Arr(<<>>)]_vars

\* C16's case: scores saved in this run have been cleared and the entry
\* removed.
C16_Witness ==
    /\ quizState = "idle" /\ ~threw
    /\ saves >= 1 /\ highScores = Arr(<<>>)
    /\ ~storageBlocked /\ storage = NoEntry

\* C18: after a save or a clear that ran to its end, the localStorage entry
\* decodes to highScores, no entry standing for the empty table; and only the
\* load, a save or a clear changes highScores or the entry.
C18_EntryMirrorsTable ==
    /\ [][\A t \in 0..MaxClock, quotaOk \in BOOLEAN :
             (handleSaveScore(t, quotaOk) /\ ~threw')
             => loadHighScores(Arr(<<>>), storage', FALSE) = highScores']_vars
    /\ [][(handleClearScores /\ ~threw')
          => loadHighScores(Arr(<<>>), storage', FALSE) = highScores']_vars
    /\ [][(highScores' # highScores \/ storage' # storage)
          => \/ useEffectLoad
             \/ handleClearScores
             \/ \E t \in 0..MaxClock, quotaOk \in BOOLEAN :
                   handleSaveScore(t, quotaOk)]_vars

\* C18's case: the save of a later session has been written, on top of a row
\* kept from before.
C18_Witness ==
    /\ quizState = "finished" /\ scoreSaved /\ ~threw
    /\ playAgains >= 1 /\ savesThisSession = 1
    /\ highScores.type = "array" /\ Len(highScores.items) \in 2..(TOP_N - 1)
    /\ loadHighScores(Arr(<<>>), storage, FALSE) = highScores

====
